---- MODULE Spec2Model ----
(***************************************************************************)
(* Model of puppetstuff: the Puppetfile parser (src/src/puppetfile.rs),    *)
(* the Forge API wrapper with its cache (src/src/forge.rs) and the         *)
(* branch/forge reconciliation of main (src/src/main.rs).                  *)
(*                                                                         *)
(* Text is a sequence of one-character strings, so that trimming, the      *)
(* three regular expressions of the parser and semver parsing/formatting   *)
(* are computed on characters as the code computes them.                   *)
(***************************************************************************)
EXTENDS Integers, Sequences, FiniteSets, TLC

\* ------------------------------------------------------------------ bounds
\* longest manifest, in raw lines, the parser specification draws
MaxLines == 3

\* ------------------------------------------------------------ Option/Result
None == [some |-> FALSE]

Some(x) == [some |-> TRUE, v |-> x]

Ok(x) == [ok |-> TRUE, v |-> x]

Err(e) == [ok |-> FALSE, e |-> e]

\* ------------------------------------------------------------- characters
Quote == {"'", "\""}

Space == {" ", "\t"}

Digits == <<"0", "1", "2", "3", "4", "5", "6", "7", "8", "9">>

Digit == {Digits[i] : i \in 1..10}

\* the characters names and versions are written in, in ASCII order
Ascii ==
    <<"-", ".", "/">> \o Digits \o
    <<"A", "B", "C", "D", "E", "F", "G", "H", "I", "J", "K", "L", "M",
      "N", "O", "P", "Q", "R", "S", "T", "U", "V", "W", "X", "Y", "Z">> \o
    <<"a", "b", "c", "d", "e", "f", "g", "h", "i", "j", "k", "l", "m",
      "n", "o", "p", "q", "r", "s", "t", "u", "v", "w", "x", "y", "z">>

\* the characters of a semver identifier: [0-9A-Za-z-]
IdentChar == {Ascii[i] : i \in 1..Len(Ascii)} \ {".", "/"}

CharCode(c) == CHOOSE i \in 1..Len(Ascii) : Ascii[i] = c

DigitVal(c) == (CHOOSE i \in 1..10 : Digits[i] = c) - 1

\* ------------------------------------------------------------ str helpers
\* first index >= from of a character of set cs, 0 when there is none
RECURSIVE IndexOf(_, _, _)
IndexOf(s, from, cs) ==
    IF from > Len(s) THEN 0
    ELSE IF s[from] \in cs THEN from
    ELSE IndexOf(s, from + 1, cs)

\* last index > after of a character of set cs, 0 when there is none
RECURSIVE LastIndexOf(_, _, _)
LastIndexOf(s, after, cs) ==
    IF Len(s) <= after THEN 0
    ELSE IF s[Len(s)] \in cs THEN Len(s)
    ELSE LastIndexOf(SubSeq(s, 1, Len(s) - 1), after, cs)

\* \s* from index i: the first index >= i that holds no whitespace
RECURSIVE SkipSpaces(_, _)
SkipSpaces(s, i) ==
    IF i <= Len(s) /\ s[i] \in Space THEN SkipSpaces(s, i + 1) ELSE i

RECURSIVE trim_start(_)
trim_start(s) ==
    IF s # <<>> /\ Head(s) \in Space THEN trim_start(Tail(s)) ELSE s

RECURSIVE trim_end(_)
trim_end(s) ==
    IF s # <<>> /\ s[Len(s)] \in Space
    THEN trim_end(SubSeq(s, 1, Len(s) - 1))
    ELSE s

trim(s) == trim_end(trim_start(s))

\* str::split(d): the pieces between the occurrences of character d
RECURSIVE split(_, _)
split(s, d) ==
    LET i == IndexOf(s, 1, {d})
    IN  IF i = 0 THEN <<s>>
        ELSE <<SubSeq(s, 1, i - 1)>> \o split(SubSeq(s, i + 1, Len(s)), d)

\* str::split_once(d): Some(<<before, after>>) at the first d, else None
split_once(s, d) ==
    LET i == IndexOf(s, 1, {d})
    IN  IF i = 0 THEN None
        ELSE Some(<<SubSeq(s, 1, i - 1), SubSeq(s, i + 1, Len(s))>>)

\* str::replace(a, b) for one-character a and b
replace(s, a, b) == [i \in 1..Len(s) |-> IF s[i] = a THEN b ELSE s[i]]

starts_with(s, p) == Len(s) >= Len(p) /\ SubSeq(s, 1, Len(p)) = p

RECURSIVE join(_, _)
join(ss, d) ==
    IF ss = <<>> THEN <<>>
    ELSE IF Len(ss) = 1 THEN ss[1]
    ELSE ss[1] \o <<d>> \o join(Tail(ss), d)

SelectLines(ss) ==
    SelectSeq(ss, LAMBDA l : l # <<>> /\ ~starts_with(l, <<"#">>))

\* ------------------------------------------------------------------ semver
\* semver::Version as a record: major, minor, patch and the pre-release text
\* (empty when there is none).  Version texts of the model carry no build
\* metadata.
Version_new(major, minor, patch) ==
    [major |-> major, minor |-> minor, patch |-> patch, pre |-> <<>>]

AllDigits(s) == s # <<>> /\ \A i \in 1..Len(s) : s[i] \in Digit

\* a numeric field: digits without a leading zero
IsNumeric(s) == AllDigits(s) /\ (Len(s) = 1 \/ s[1] # "0")

RECURSIVE ToNat(_)
ToNat(s) ==
    IF s = <<>> THEN 0
    ELSE 10 * ToNat(SubSeq(s, 1, Len(s) - 1)) + DigitVal(s[Len(s)])

RECURSIVE NatToChars(_)
NatToChars(n) ==
    IF n < 10 THEN <<Digits[n + 1]>>
    ELSE NatToChars(n \div 10) \o <<Digits[(n % 10) + 1]>>

\* one dot-separated pre-release identifier
ValidIdent(s) ==
    /\ s # <<>>
    /\ \A i \in 1..Len(s) : s[i] \in IdentChar
    /\ (AllDigits(s) => IsNumeric(s))

ValidPre(pre) ==
    LET ids == split(pre, ".")
    IN  \A i \in 1..Len(ids) : ValidIdent(ids[i])

\* Version::parse: MAJOR.MINOR.PATCH[-PRERELEASE]
Version_parse(s) ==
    LET dash  == IndexOf(s, 1, {"-"})
        core  == IF dash = 0 THEN s ELSE SubSeq(s, 1, dash - 1)
        pre   == IF dash = 0 THEN <<>> ELSE SubSeq(s, dash + 1, Len(s))
        parts == split(core, ".")
    IN  IF /\ Len(parts) = 3
           /\ \A i \in 1..3 : IsNumeric(parts[i])
           /\ (dash # 0 => ValidPre(pre))
        THEN Ok([major |-> ToNat(parts[1]), minor |-> ToNat(parts[2]),
                 patch |-> ToNat(parts[3]), pre |-> pre])
        ELSE Err("semver")

\* Display for Version
Version_to_string(v) ==
    NatToChars(v.major) \o <<".">> \o NatToChars(v.minor) \o <<".">>
        \o NatToChars(v.patch)
        \o (IF v.pre = <<>> THEN <<>> ELSE <<"-">> \o v.pre)

CmpNat(a, b) == IF a < b THEN -1 ELSE IF a > b THEN 1 ELSE 0

\* byte-wise string comparison
RECURSIVE CmpStr(_, _)
CmpStr(a, b) ==
    IF a = <<>> /\ b = <<>> THEN 0
    ELSE IF a = <<>> THEN -1
    ELSE IF b = <<>> THEN 1
    ELSE IF CharCode(Head(a)) # CharCode(Head(b))
         THEN CmpNat(CharCode(Head(a)), CharCode(Head(b)))
    ELSE CmpStr(Tail(a), Tail(b))

\* precedence of two pre-release identifiers: numeric ones by value and
\* below alphanumeric ones, alphanumeric ones in ASCII order
CmpIdent(a, b) ==
    IF AllDigits(a) /\ AllDigits(b) THEN CmpNat(ToNat(a), ToNat(b))
    ELSE IF AllDigits(a) THEN -1
    ELSE IF AllDigits(b) THEN 1
    ELSE CmpStr(a, b)

RECURSIVE CmpIdents(_, _)
CmpIdents(as, bs) ==
    IF as = <<>> /\ bs = <<>> THEN 0
    ELSE IF as = <<>> THEN -1
    ELSE IF bs = <<>> THEN 1
    ELSE IF CmpIdent(Head(as), Head(bs)) # 0 THEN CmpIdent(Head(as), Head(bs))
    ELSE CmpIdents(Tail(as), Tail(bs))

\* a version without pre-release is above every pre-release of it
CmpPre(a, b) ==
    IF a = <<>> /\ b = <<>> THEN 0
    ELSE IF a = <<>> THEN 1
    ELSE IF b = <<>> THEN -1
    ELSE CmpIdents(split(a, "."), split(b, "."))

\* Ord for Version: major, minor, patch, then pre-release
Version_cmp(a, b) ==
    IF a.major # b.major THEN CmpNat(a.major, b.major)
    ELSE IF a.minor # b.minor THEN CmpNat(a.minor, b.minor)
    ELSE IF a.patch # b.patch THEN CmpNat(a.patch, b.patch)
    ELSE CmpPre(a.pre, b.pre)

Version_lt(a, b) == Version_cmp(a, b) < 0

Version_gt(a, b) == Version_cmp(a, b) > 0

\* the update of the maximum as a plain assignment of the new version
Version_max_assign(a, b) == a

\* std::cmp::max(a, b): b unless a is strictly greater
Version_max(a, b) == IF Version_gt(a, b) THEN a ELSE b

\* -------------------------------------------------------- models.rs values
Head_ref == [tag |-> "Head"]

GitRef(tag, value) == [tag |-> tag, v |-> value]

GitSpec(url, reference, fallback, link) ==
    [url |-> url, reference |-> reference, fallback |-> fallback, link |-> link]

Forge(name, version) == [kind |-> "Forge", name |-> name, version |-> version]

Git(name, spec) == [kind |-> "Git", name |-> name, spec |-> spec]

\* ------------------------------------------------- the regular expressions
NoMatch == [matched |-> FALSE]

\* ^\s*(?:mod)\s+['"] : the index of the opening quote of the name, 0 when
\* the line does not start that way
ModOpen(l) ==
    LET i0 == SkipSpaces(l, 1)
        i2 == SkipSpaces(l, i0 + 3)
    IN  IF /\ i0 + 3 <= Len(l)
           /\ SubSeq(l, i0, i0 + 2) = <<"m", "o", "d">>
           /\ i2 > i0 + 3
           /\ i2 <= Len(l)
           /\ l[i2] \in Quote
        THEN i2 ELSE 0

\* [^'"]+[-/][^'"]+ : a name with an owner separator inside it
ForgeName(n) == \E k \in 2..(Len(n) - 1) : n[k] \in {"-", "/"}

\* ^\s*(?:mod)\s+['"](?P<name>[^'"]+[-/][^'"]+)['"],\s+['"](?P<version>.*)['"]
FORGE_MODULE_RE(l) ==
    LET o  == ModOpen(l)
        q  == IndexOf(l, o + 1, Quote)
        i3 == SkipSpaces(l, q + 2)
        r  == LastIndexOf(l, i3, Quote)
    IN  IF /\ o # 0
           /\ q # 0
           /\ ForgeName(SubSeq(l, o + 1, q - 1))
           /\ q + 1 <= Len(l)
           /\ l[q + 1] = ","
           /\ i3 > q + 2
           /\ i3 <= Len(l)
           /\ l[i3] \in Quote
           /\ r # 0
        THEN [matched |-> TRUE, name |-> SubSeq(l, o + 1, q - 1),
              version |-> SubSeq(l, i3 + 1, r - 1)]
        ELSE NoMatch

\* ^\s*(?:mod)\s+['"](?P<name>[^'"]+)['"]\s*,$
GIT_MODULE_RE(l) ==
    LET o == ModOpen(l)
        q == IndexOf(l, o + 1, Quote)
        c == SkipSpaces(l, q + 1)
    IN  IF /\ o # 0
           /\ q > o + 1
           /\ c = Len(l)
           /\ l[c] = ","
        THEN [matched |-> TRUE, name |-> SubSeq(l, o + 1, q - 1)]
        ELSE NoMatch

\* the alternation git|commit|tag|branch|ref|link|fallback
AttrNames ==
    << <<"g", "i", "t">>, <<"c", "o", "m", "m", "i", "t">>, <<"t", "a", "g">>,
       <<"b", "r", "a", "n", "c", "h">>, <<"r", "e", "f">>,
       <<"l", "i", "n", "k">>, <<"f", "a", "l", "l", "b", "a", "c", "k">> >>

\* \s*=>\s*['"]?(?P<value>[^'"]+)['"]?$ on the text after the attribute name
AttrValue(r) ==
    LET a  == SkipSpaces(r, 1)
        b  == SkipSpaces(r, a + 2)
        t  == SubSeq(r, b, Len(r))
        t1 == IF t # <<>> /\ Head(t) \in Quote THEN Tail(t) ELSE t
        t2 == IF t1 # <<>> /\ t1[Len(t1)] \in Quote
              THEN SubSeq(t1, 1, Len(t1) - 1) ELSE t1
    IN  IF /\ a + 1 <= Len(r)
           /\ SubSeq(r, a, a + 1) = <<"=", ">">>
           /\ t2 # <<>>
           /\ IndexOf(t2, 1, Quote) = 0
        THEN Some(t2) ELSE None

\* ^\s*:(?P<name>git|commit|tag|branch|ref|link|fallback)\s*=>\s*['"]?(?P<value>[^'"]+)['"]?$
GIT_ATTRIBUTE_RE(l) ==
    LET i0 == SkipSpaces(l, 1)
        after == SubSeq(l, i0 + 1, Len(l))
        hits == {k \in 1..Len(AttrNames) :
                    /\ starts_with(after, AttrNames[k])
                    /\ AttrValue(SubSeq(after, Len(AttrNames[k]) + 1,
                                        Len(after))).some}
    IN  IF i0 <= Len(l) /\ l[i0] = ":" /\ hits # {}
        THEN LET k == CHOOSE k \in hits : TRUE
             IN  [matched |-> TRUE, name |-> AttrNames[k],
                  value |-> AttrValue(SubSeq(after, Len(AttrNames[k]) + 1,
                                             Len(after))).v]
        ELSE NoMatch

\* ------------------------------------------------------- parse_puppetfile
\* the lines the loop iterates: content.split("\n"), trimmed, without the
\* empty lines and the lines that start with #
IterLines(text) ==
    LET raw == split(text, "\n")
    IN  SelectLines([i \in 1..Len(raw) |-> trim(raw[i])])

\* everything before the first # of the line
StripComment(line) ==
    LET so == split_once(line, "#")
    IN  IF so.some THEN trim(so.v[1]) ELSE line

\* the scanner's state: the output so far, the module being accumulated and
\* how the loop stands ("scan", "break" after a break, "panic" after unwrap()
\* on a version that is not semver)
ScanInit == [modules |-> <<>>, current_module |-> None, status |-> "scan"]

\* SetAttribute that builds the spec anew around the attribute it sets
SetAttribute_fresh(st, c_m, name, value) ==
    LET with(sp) == [st EXCEPT !.current_module = Some(Git(c_m.name, sp))]
    IN  IF name = AttrNames[1]
        THEN with(GitSpec(Some(value), Head_ref, None, FALSE))
        ELSE IF name = AttrNames[3]
        THEN with(GitSpec(None, GitRef("Tag", value), None, FALSE))
        ELSE IF name = AttrNames[4]
        THEN with(GitSpec(None, GitRef("Branch", value), None, FALSE))
        ELSE IF name = AttrNames[2]
        THEN with(GitSpec(None, GitRef("Commit", value), None, FALSE))
        ELSE IF name = AttrNames[7]
        THEN with(GitSpec(None, Head_ref, Some(value), FALSE))
        ELSE IF name = AttrNames[6]
        THEN with(GitSpec(None, Head_ref, None, TRUE))
        ELSE [st EXCEPT !.status = "break"]

\* the match on the attribute name, on the GitSpec being accumulated
SetAttribute(st, c_m, name, value) ==
    LET spec == c_m.spec
        with(sp) == [st EXCEPT !.current_module = Some(Git(c_m.name, sp))]
    IN  IF name = AttrNames[1] THEN with([spec EXCEPT !.url = Some(value)])
        ELSE IF name = AttrNames[3]
             THEN with([spec EXCEPT !.reference = GitRef("Tag", value)])
        ELSE IF name = AttrNames[4]
             THEN with([spec EXCEPT !.reference = GitRef("Branch", value)])
        ELSE IF name = AttrNames[2]
             THEN with([spec EXCEPT !.reference = GitRef("Commit", value)])
        ELSE IF name = AttrNames[7]
             THEN with([spec EXCEPT !.fallback = Some(value)])
        ELSE IF name = AttrNames[6] THEN with([spec EXCEPT !.link = TRUE])
        ELSE [st EXCEPT !.status = "break"]

\* ForgeLine that pushes the module being accumulated after the registry
\* module
ForgeLine_late(st, caps) ==
    LET name == replace(caps.name, "/", "-")
        version == Version_parse(caps.version)
        pushed == Append(st.modules, Forge(name, version.v))
    IN  IF version.ok
        THEN [modules |-> IF st.current_module.some
                          THEN Append(pushed, st.current_module.v)
                          ELSE pushed,
              current_module |-> None, status |-> "scan"]
        ELSE [modules |-> st.modules, current_module |-> None,
              status |-> "panic"]

\* ForgeLine that keeps the name as it was written
ForgeLine_raw(st, caps) ==
    LET pushed == IF st.current_module.some
                  THEN Append(st.modules, st.current_module.v)
                  ELSE st.modules
        version == Version_parse(caps.version)
    IN  IF version.ok
        THEN [modules |-> Append(pushed, Forge(caps.name, version.v)),
              current_module |-> None, status |-> "scan"]
        ELSE [modules |-> pushed, current_module |-> None, status |-> "panic"]

\* a registry line: the module being accumulated is pushed first, then the
\* name is canonicalized and the version parsed and unwrapped
ForgeLine(st, caps) ==
    LET pushed == IF st.current_module.some
                  THEN Append(st.modules, st.current_module.v)
                  ELSE st.modules
        name == replace(caps.name, "/", "-")
        version == Version_parse(caps.version)
    IN  IF version.ok
        THEN [modules |-> Append(pushed, Forge(name, version.v)),
              current_module |-> None, status |-> "scan"]
        ELSE [modules |-> pushed, current_module |-> None, status |-> "panic"]

\* a git module line: the module being accumulated is pushed, a new one opened
GitLine(st, caps) ==
    [modules |-> IF st.current_module.some
                 THEN Append(st.modules, st.current_module.v)
                 ELSE st.modules,
     current_module |->
         Some(Git(caps.name, GitSpec(None, Head_ref, None, FALSE))),
     status |-> "scan"]

\* an attribute line: applied to the git module being accumulated; a break
\* when there is none, or when the name is none of the handled ones
AttributeLine(st, caps) ==
    IF st.current_module.some
    THEN IF st.current_module.v.kind = "Forge"
         THEN [st EXCEPT !.status = "break"]
         ELSE SetAttribute(st, st.current_module.v, caps.name, caps.value)
    ELSE [st EXCEPT !.status = "break"]

\* one iteration of the loop body
ScanLine(st, l) ==
    LET line == StripComment(l)
    IN  IF FORGE_MODULE_RE(line).matched
        THEN ForgeLine(st, FORGE_MODULE_RE(line))
        ELSE IF GIT_MODULE_RE(line).matched
        THEN GitLine(st, GIT_MODULE_RE(line))
        ELSE IF GIT_ATTRIBUTE_RE(line).matched
        THEN AttributeLine(st, GIT_ATTRIBUTE_RE(line))
        ELSE st

\* the end of the function without the push of the last module
EndOfFile_none(st) == st.modules

\* after the loop: the module still being accumulated is pushed
EndOfFile(st) ==
    IF st.current_module.some
    THEN Append(st.modules, st.current_module.v)
    ELSE st.modules

RECURSIVE ScanLines(_, _)
ScanLines(st, ls) ==
    IF ls = <<>> \/ st.status # "scan" THEN st
    ELSE ScanLines(ScanLine(st, Head(ls)), Tail(ls))

\* parse_puppetfile as a function of the text: the modules it returns, or
\* the panic that ends the process
parse_puppetfile(text) ==
    LET st == ScanLines(ScanInit, IterLines(text))
    IN  IF st.status = "panic" THEN Err("panic") ELSE Ok(EndOfFile(st))

\* ------------------------------------------------------------- ForgeApi
\* one hour, in seconds
TTL == 3600

\* CacheEntry
CacheEntry(version, is_deprecated, time_fetched) ==
    [version |-> version, is_deprecated |-> is_deprecated,
     time_fetched |-> time_fetched]

\* the outcome of a call: Ok(value), Err(message), or a panic of the thread
Panic == [ok |-> FALSE, e |-> "panic"]

IsErr(r) == ~r.ok /\ r.e # "panic"

\* the end of fetch_data: the version of the body must be semver
ReleaseOf(version, deprecated_at) ==
    IF version.ok
    THEN Ok([version |-> version.v, deprecated_at |-> deprecated_at])
    ELSE Err("not semver")

\* fetch_data: the request goes to the module named with every / replaced
\* by -; resp is what the session answers
fetch_data(name, resp) ==
    IF resp.kind = "error" THEN Err("communication")
    ELSE IF resp.kind = "malformed" THEN Err("json")
    ELSE ReleaseOf(Version_parse(resp.version), resp.deprecated_at)

\* the name fetch_data puts into the URL
UrlName(name) == replace(name, "/", "-")

\* Outdated with the hour mistaken for a minute
Outdated_minute(e, t) == e.time_fetched < t - 60

\* whether get_data takes the "in cache and outdated" branch at time t
Outdated(e, t) == e.time_fetched < t - TTL

\* the entry get_data writes after a successful fetch at time t
FetchedEntry(data, t) ==
    CacheEntry(Version_to_string(data.version), data.deprecated_at.some, t)

\* an insert that starts the map over with the one entry
Insert_only(c, name, entry) == [k \in {name} |-> entry]

\* the map after cache.insert(name, entry)
Insert(c, name, entry) ==
    [k \in DOMAIN c \cup {name} |-> IF k = name THEN entry ELSE c[k]]

\* Refresh that stamps a stale entry with the time of the attempt even
\* when the fetch failed
Refresh_touch(c, t, name, fetched) ==
    IF fetched.ok
    THEN [cache |-> Insert(c, name, FetchedEntry(fetched.v, t)),
          result |-> Ok(<<>>), requests |-> 1]
    ELSE [cache |-> IF name \in DOMAIN c
                    THEN [c EXCEPT ![name].time_fetched = t] ELSE c,
          result |-> fetched, requests |-> 1]

\* the two fetching branches of get_data, fetched being what fetch_data
\* returned: the entry is written, or the error leaves through `?`
Refresh(c, t, name, fetched) ==
    IF fetched.ok
    THEN [cache |-> Insert(c, name, FetchedEntry(fetched.v, t)),
          result |-> Ok(<<>>), requests |-> 1]
    ELSE [cache |-> c, result |-> fetched, requests |-> 1]

\* get_data that fetches on every call
get_data_always(c, t, name, resp) ==
    Refresh(c, t, name, fetch_data(name, resp))

\* get_data at time t: the cache afterwards, Ok or the error of the fetch,
\* and how many requests were sent
get_data(c, t, name, resp) ==
    IF name \in DOMAIN c /\ ~Outdated(c[name], t)
    THEN [cache |-> c, result |-> Ok(<<>>), requests |-> 0]
    ELSE Refresh(c, t, name, fetch_data(name, resp))

\* the unwrap of get_version on the parsed text of the cached version
Unwrap(parsed) == IF parsed.ok THEN Ok(parsed.v) ELSE Panic

\* get_version after get_data returned d
VersionOf(d, name) ==
    [cache |-> d.cache, requests |-> d.requests,
     ret |-> IF ~d.result.ok THEN d.result
             ELSE Unwrap(Version_parse(d.cache[name].version))]

\* get_version: the cached version text parsed and unwrapped
get_version(c, t, name, resp) == VersionOf(get_data(c, t, name, resp), name)

\* is_deprecated after get_data returned d
DeprecationOf(d, name) ==
    [cache |-> d.cache, requests |-> d.requests,
     ret |-> IF ~d.result.ok THEN d.result
             ELSE Ok(d.cache[name].is_deprecated)]

\* is_deprecated: the cached flag
is_deprecated(c, t, name, resp) ==
    DeprecationOf(get_data(c, t, name, resp), name)

\* load_cache that keeps what it had read of a file it cannot parse
load_cache_partial(file) ==
    IF file.kind = "map" THEN file.map
    ELSE IF file.kind = "garbage"
    THEN [n \in {<<"a", "-", "b">>} |->
             CacheEntry(<<"1", ".", "0", ".", "0">>, FALSE, 0)]
    ELSE << >>

\* load_cache: an empty map when the file cannot be read or parsed
load_cache(file) ==
    IF file.kind = "map" THEN file.map ELSE << >>

\* ------------------------------------------------------------------- main
\* str::replacen(a, b, 1) for one-character a and b
replacen1(s, a, b) ==
    LET i == IndexOf(s, 1, {a})
    IN  IF i = 0 THEN s ELSE [s EXCEPT ![i] = b]

\* the names in an order of the set's own, here the descending one
RECURSIVE SortStrings_hash(_)
SortStrings_hash(S) ==
    IF S = {} THEN <<>>
    ELSE LET m == CHOOSE x \in S : \A y \in S : CmpStr(x, y) >= 0
         IN  <<m>> \o SortStrings_hash(S \ {m})

\* {name}.sort() of a collection of strings: ascending byte order
RECURSIVE SortStrings(_)
SortStrings(S) ==
    IF S = {} THEN <<>>
    ELSE LET m == CHOOSE x \in S : \A y \in S : CmpStr(x, y) <= 0
         IN  <<m>> \o SortStrings(S \ {m})

SeqRange(q) == {q[i] : i \in 1..Len(q)}

origin == <<"o", "r", "i", "g", "i", "n">>

\* format!("origin/{bname}")
OriginBranch(bname) == origin \o <<"/">> \o bname

\* FirstForge without the break: the last match is the one that stays
FirstForge_last(mods, mod_name) ==
    LET hits == {i \in 1..Len(mods) :
                    mods[i].kind = "Forge" /\ mods[i].name = mod_name}
    IN  IF hits = {} THEN 0
        ELSE CHOOSE i \in hits : \A j \in hits : i >= j

\* the index of the first Module::Forge of that name among a branch's
\* modules, 0 when the branch has none
FirstForge(mods, mod_name) ==
    LET hits == {i \in 1..Len(mods) :
                    mods[i].kind = "Forge" /\ mods[i].name = mod_name}
    IN  IF hits = {} THEN 0
        ELSE CHOOSE i \in hits : \A j \in hits : i <= j

\* what one branch does to the row: the first match raises
\* max_in_use_version and fills the branch's slot
ScanBranch(row, branch) ==
    LET i == FirstForge(branch.modules, row.name)
        version == branch.modules[i].version
    IN  IF i = 0 THEN row
        ELSE [row EXCEPT
                !.max_in_use_version = Version_max(version, @),
                !.branch_versions =
                    [b \in DOMAIN @ \cup {branch.name} |->
                        IF b = branch.name THEN Some(version) ELSE @[b]]]

RECURSIVE ScanBranches(_, _)
ScanBranches(row, branches) ==
    IF branches = <<>> THEN row
    ELSE ScanBranches(ScanBranch(row, Head(branches)), Tail(branches))

\* the ModuleRow of a module, from the two lookups and the branches
ModuleRow(mod_name, forge_version, forge_deprecated, branches) ==
    ScanBranches([name |-> mod_name,
                  forge_version |-> forge_version,
                  forge_deprecated |-> forge_deprecated,
                  max_in_use_version |-> Version_new(0, 0, 0),
                  branch_versions |-> << >>],
                 branches)

\* the marks of the three output formats: background colour of the
\* terminal cell, suffix of the jira cell, suffix of the markdown cell
Mark(format, terminal, jira, md) ==
    IF format = "TerminalTable" THEN terminal
    ELSE IF format = "Jira" THEN jira
    ELSE md

\* the "Forge latest" cell with the comparison tried before the flag
ForgeCell_ahead_first(row, format) ==
    [text |-> Version_to_string(row.forge_version),
     mark |-> IF Version_gt(row.forge_version, row.max_in_use_version)
              THEN Mark(format, "DarkYellow", "(!)", "clock")
              ELSE IF row.forge_deprecated
              THEN Mark(format, "Red", "(x)", "fire")
              ELSE Mark(format, "none", "", "")]

\* the "Forge latest" cell of a row
ForgeCell(row, format) ==
    [text |-> Version_to_string(row.forge_version),
     mark |-> IF row.forge_deprecated
              THEN Mark(format, "Red", "(x)", "fire")
              ELSE IF Version_gt(row.forge_version, row.max_in_use_version)
              THEN Mark(format, "DarkYellow", "(!)", "clock")
              ELSE Mark(format, "none", "", "")]

BlankCell == [text |-> <<>>, mark |-> "blank"]

\* the cell of one branch of a row
BranchCell(row, branch_name, format) ==
    IF branch_name \in DOMAIN row.branch_versions
    THEN LET slot == row.branch_versions[branch_name]
         IN  IF ~slot.some THEN BlankCell
             ELSE [text |-> Version_to_string(slot.v),
                   mark |->
                     IF Version_lt(slot.v, row.max_in_use_version)
                     THEN Mark(format, "DarkYellow", "(!)", "clock")
                     ELSE IF Version_gt(slot.v, row.max_in_use_version)
                     THEN Mark(format, "Yellow", "(x)", "fire")
                     ELSE Mark(format, "DarkGreen", "", "")]
    ELSE BlankCell

\* the columns of the table: the selected branch, or every branch
Columns(names, selected) ==
    SelectSeq(names, LAMBDA b : ~selected.some \/ selected.v = b)

\* one row of the output
RenderRow(row, format, names, selected) ==
    LET cols == Columns(names, selected)
    IN  [name |-> row.name,
         href |-> replacen1(row.name, "-", "/"),
         forge |-> ForgeCell(row, format),
         cells |-> [i \in 1..Len(cols) |-> BranchCell(row, cols[i], format)]]

\* the row of the forge-latest table
LatestRow(name, version, deprecated) ==
    [name |-> name,
     href |-> replacen1(name, "-", "/"),
     forge |-> [text |-> Version_to_string(version),
                mark |-> IF deprecated THEN "Red" ELSE "none"]]

\* ForgeNamesOf without the filter on the variant
ForgeNamesOf_all(mods) == {mods[i].name : i \in 1..Len(mods)}

\* the names of the Module::Forge entries of a branch
ForgeNamesOf(mods) ==
    {mods[i].name : i \in {j \in 1..Len(mods) : mods[j].kind = "Forge"}}

\* ------------------------------------------------------------------ inputs
\* lines of Puppetfiles
\* a registry line, owner/name form, indented
L_forge_ab_1 ==
    <<" ", " ", "m", "o", "d", " ", "\"", "a", "/", "b", "\"", ",", " ",
      "\"", "1", ".", "0", ".", "0", "\"">>

\* a registry line with single quotes and a trailing comment
L_forge_ab_2 ==
    <<"m", "o", "d", " ", "'", "a", "-", "b", "'", ",", " ", "'", "2",
      ".", "0", ".", "0", "'", " ", "#", " ", "p", "i", "n", "n",
      "e", "d">>

\* a registry line with a pre-release version
L_forge_cd_pre ==
    <<"m", "o", "d", " ", "\"", "c", "-", "d", "\"", ",", " ", "\"", "0",
      ".", "0", ".", "0", "-", "a", "\"">>

\* a registry line whose version is not semver
L_forge_cd_bad ==
    <<"m", "o", "d", " ", "\"", "c", "-", "d", "\"", ",", " ", "\"", "x",
      "\"">>

\* the registry shape with a name that has no owner separator
L_forge_a_bad ==
    <<"m", "o", "d", " ", "\"", "a", "\"", ",", " ", "\"", "x", "\"">>

\* a registry line whose name has two separators
L_forge_abc ==
    <<"m", "o", "d", " ", "\"", "a", "/", "b", "/", "c", "\"", ",", " ",
      "\"", "1", ".", "0", ".", "0", "\"">>

\* a git module line
L_git_g ==
    <<"m", "o", "d", " ", "'", "g", "'", ",">>

\* a git module line with an owner/name name
L_git_mt ==
    <<"m", "o", "d", " ", "\"", "m", "/", "t", "\"", ",">>

\* attribute lines
L_attr_git ==
    <<":", "g", "i", "t", " ", "=", ">", " ", "'", "u", "'">>

L_attr_branch ==
    <<":", "b", "r", "a", "n", "c", "h", " ", "=", ">", " ", "\"", "m",
      "\"">>

L_attr_tag ==
    <<":", "t", "a", "g", " ", "=", ">", " ", "'", "t", "'">>

L_attr_commit ==
    <<":", "c", "o", "m", "m", "i", "t", " ", "=", ">", " ", "'", "c", "'">>

L_attr_fallback ==
    <<":", "f", "a", "l", "l", "b", "a", "c", "k", " ", "=", ">", " ",
      "'", "f", "'">>

L_attr_link ==
    <<":", "l", "i", "n", "k", " ", "=", ">", " ", "t", "r", "u", "e">>

\* an attribute the expression accepts and the match does not handle
L_attr_ref ==
    <<":", "r", "e", "f", " ", "=", ">", " ", "'", "r", "'">>

\* an attribute the expression does not accept
L_attr_foo ==
    <<":", "f", "o", "o", " ", "=", ">", " ", "'", "x", "'">>

\* a comment line
L_comment ==
    <<"#", " ", "m", "o", "d", " ", "'", "c", "-", "d", "'", ",", " ",
      "'", "9", ".", "9", ".", "9", "'">>

\* module names, version texts and branch names
N_a_b == <<"a", "-", "b">>

N_a_slash_b == <<"a", "/", "b">>

N_c_d == <<"c", "-", "d">>

V_100 == <<"1", ".", "0", ".", "0">>

V_200 == <<"2", ".", "0", ".", "0">>

V_bad == <<"x">>

B_a == <<"a">>

B_b == <<"b">>

B_zz == <<"z", "z">>

\* the lines the parser specification builds manifests from
LinePool ==
    {L_forge_ab_1, L_forge_ab_2, L_forge_abc, L_forge_cd_bad, L_forge_a_bad,
     L_git_g, L_git_mt, L_attr_git, L_attr_branch, L_attr_tag, L_attr_commit,
     L_attr_fallback, L_attr_link, L_attr_ref, L_attr_foo, L_comment}

\* every text of at most MaxLines lines of the pool
Manifests ==
    {join(ls, "\n") :
        ls \in UNION {[1..n -> LinePool] : n \in 0..MaxLines}}

\* what the registry can answer to a request: no answer, a body that is
\* not the expected JSON, or a release with or without "deprecated_at"
Release(version, deprecated_at) ==
    [kind |-> "json", version |-> version, deprecated_at |-> deprecated_at]

Responses ==
    {[kind |-> "error"], [kind |-> "malformed"],
     Release(V_100, None), Release(V_100, Some(0)),
     Release(V_200, None), Release(V_200, Some(1)),
     Release(V_bad, None)}

\* the Unix time at which the run starts, and how often the clock is seen
\* to advance
Now0 == 100000

MaxTicks == 2

TickSteps == {1, TTL - 1}

\* the names the cache specification looks up
LookupNames == {N_a_b, N_a_slash_b}

\* the cache file: missing, not JSON, or a map written by an earlier run
SnapshotFiles ==
    {[kind |-> "missing"], [kind |-> "garbage"],
     [kind |-> "map",
      map |-> [n \in {N_a_b} |-> CacheEntry(V_100, FALSE, Now0 - TTL)]],
     [kind |-> "map",
      map |-> [n \in {N_a_b} |-> CacheEntry(V_200, TRUE, Now0 - 1)]],
     [kind |-> "map",
      map |-> [n \in {N_a_b} |-> CacheEntry(V_bad, FALSE, Now0 - 1)]]}

\* ------------------------------------------------------------------ state
VARIABLES
    \* parse_puppetfile: its argument, the number of lines the loop has
    \* taken, its two locals, where it stands and what it returned
    content, line_no, modules, current_module, parse_pc, result,
    \* the line at which an attribute met no module being accumulated
    anomaly_at,
    \* ForgeApi: the cache map; the wall clock; the latest lookup
    cache, now, ticks, last,
    \* main: the arguments, the branches of the repository, the position,
    \* the locals of main and parse_git_repo, stdout and the cache file
    args, repo, pc, panic, branch_no, branch_modules, forge_names,
    names, branch_names, idx, forge_version, module_rows, table, printed,
    cache_file

parser_vars ==
    <<content, line_no, modules, current_module, parse_pc, result, anomaly_at>>

api_vars == <<cache, now, ticks, last>>

main_vars ==
    <<args, repo, pc, panic, branch_no, branch_modules, forge_names, names,
      branch_names, idx, forge_version, module_rows, table, printed,
      cache_file>>

vars == <<parser_vars, api_vars, main_vars>>

NoCall == [op |-> "none", after_miss |-> FALSE]

\* a successful is_deprecated call that found no entry for the name
MissedAndFetched(call, name) ==
    /\ call.op = "is_deprecated"
    /\ call.name = name
    /\ ~call.before.some
    /\ call.ret.ok

\* the record of a lookup: what was asked and when, the entry before and
\* after, the requests sent, the answer used, what the call returned, and
\* whether the call before it was a successful is_deprecated miss of the name
CallRecord(op, name, c, t, resp, r) ==
    [op |-> op, name |-> name, at |-> t,
     after_miss |-> MissedAndFetched(last, name),
     before |-> IF name \in DOMAIN c THEN Some(c[name]) ELSE None,
     after |-> IF name \in DOMAIN r.cache THEN Some(r.cache[name]) ELSE None,
     requests |-> r.requests,
     url |-> IF r.requests = 0 THEN None ELSE Some(UrlName(name)),
     resp |-> IF r.requests = 0 THEN None ELSE Some(resp),
     ret |-> r.ret]

ParserIdle ==
    /\ content = <<>>
    /\ line_no = 0
    /\ modules = <<>>
    /\ current_module = None
    /\ parse_pc = "idle"
    /\ result = None
    /\ anomaly_at = 0

ApiIdle ==
    /\ cache = << >>
    /\ now = Now0
    /\ ticks = 0
    /\ last = NoCall

MainIdle ==
    /\ args = [view |-> "none"]
    /\ repo = <<>>
    /\ pc = "idle"
    /\ panic = "none"
    /\ branch_no = 0
    /\ branch_modules = <<>>
    /\ forge_names = {}
    /\ names = <<>>
    /\ branch_names = <<>>
    /\ idx = 0
    /\ forge_version = None
    /\ module_rows = <<>>
    /\ table = <<>>
    /\ printed = None

\* ------------------------------------------------ parse_puppetfile, stepwise
InitParse ==
    /\ content \in Manifests
    /\ cache_file = [kind |-> "missing"]
    /\ line_no = 0
    /\ modules = <<>>
    /\ current_module = None
    /\ parse_pc = "loop"
    /\ result = None
    /\ anomaly_at = 0
    /\ ApiIdle
    /\ MainIdle

\* an attribute line met while no module is being accumulated
IsAnomaly(st, l) ==
    LET line == StripComment(l)
    IN  /\ ~FORGE_MODULE_RE(line).matched
        /\ ~GIT_MODULE_RE(line).matched
        /\ GIT_ATTRIBUTE_RE(line).matched
        /\ ~st.current_module.some

\* the loop takes its next line
ParseLoop ==
    /\ parse_pc = "loop"
    /\ line_no < Len(IterLines(content))
    /\ LET l  == IterLines(content)[line_no + 1]
           st == [modules |-> modules, current_module |-> current_module,
                  status |-> "scan"]
           nx == ScanLine(st, l)
       IN  /\ modules' = nx.modules
           /\ current_module' = nx.current_module
           /\ parse_pc' = IF nx.status = "scan" THEN "loop"
                          ELSE IF nx.status = "break" THEN "break"
                          ELSE "panicked"
           /\ anomaly_at' = IF anomaly_at = 0 /\ IsAnomaly(st, l)
                            THEN line_no + 1 ELSE anomaly_at
    /\ line_no' = line_no + 1
    /\ UNCHANGED <<content, result, api_vars, main_vars>>

\* the loop has ended, by exhaustion or by break: the function returns
ParseReturn ==
    /\ \/ parse_pc = "loop" /\ line_no = Len(IterLines(content))
       \/ parse_pc = "break"
    /\ modules' = EndOfFile([modules |-> modules,
                             current_module |-> current_module])
    /\ current_module' = None
    /\ result' = Some(modules')
    /\ parse_pc' = "returned"
    /\ UNCHANGED <<content, line_no, anomaly_at, api_vars, main_vars>>

NextParse == ParseLoop \/ ParseReturn

SpecParse == InitParse /\ [][NextParse]_vars

\* ------------------------------------------------------ ForgeApi, stepwise
\* ForgeApi::new(Some(file)) at time Now0, then lookups as the clock runs
InitCache ==
    /\ cache_file \in SnapshotFiles
    /\ cache = load_cache(cache_file)
    /\ now = Now0
    /\ ticks = 0
    /\ last = NoCall
    /\ ParserIdle
    /\ MainIdle

\* the wall clock advances by one of the steps
Advance(steps) ==
    /\ ticks < MaxTicks
    /\ panic = "none"
    /\ \E d \in steps : now' = now + d
    /\ ticks' = ticks + 1
    /\ UNCHANGED <<cache, last, parser_vars, main_vars>>

\* between two lookups: a second, or a second less than the TTL
Tick == Advance(TickSteps)

\* a lookup that returned r: the cache and the record of the call
Called(op, name, resp, r) ==
    /\ cache' = r.cache
    /\ last' = CallRecord(op, name, cache, now, resp, r)

\* api.get_version(name), the registry answering resp if it is asked
GetVersion(name, resp) ==
    /\ pc = "idle"
    /\ panic = "none"
    /\ Called("get_version", name, resp, get_version(cache, now, name, resp))
    /\ panic' = IF last'.ret = Panic THEN "get_version" ELSE "none"
    /\ UNCHANGED <<now, ticks, parser_vars, args, repo, pc, branch_no,
                   branch_modules, forge_names, names, branch_names, idx,
                   forge_version, module_rows, table, printed, cache_file>>

\* api.is_deprecated(name)
IsDeprecated(name, resp) ==
    /\ pc = "idle"
    /\ panic = "none"
    /\ Called("is_deprecated", name, resp,
              is_deprecated(cache, now, name, resp))
    /\ UNCHANGED <<now, ticks, parser_vars, main_vars>>

NextCache ==
    \/ Tick
    \/ \E name \in LookupNames, resp \in Responses : GetVersion(name, resp)
    \/ \E name \in LookupNames, resp \in Responses : IsDeprecated(name, resp)

SpecCache == InitCache /\ [][NextCache]_vars

\* ------------------------------------------------------------ main, stepwise
\* the Puppetfiles of the branches
PF_1 == join(<<L_forge_ab_1>>, "\n")

PF_2 == join(<<L_forge_ab_2, L_git_g, L_attr_git>>, "\n")

PF_3 == join(<<L_forge_cd_pre, L_forge_ab_1, L_forge_ab_2>>, "\n")

PF_bad == join(<<L_forge_ab_1, L_forge_cd_bad>>, "\n")

Puppetfiles == {PF_1, PF_2, PF_3, PF_bad}

fork_a == <<"f", "o", "r", "k", "/", "a">>

\* a remote branch as git2 hands it over: its name and the Puppetfile blob
\* of its tree, if there is one
RemoteBranch(name, puppetfile) == [name |-> name, puppetfile |-> puppetfile]

RemoteBranches ==
    {RemoteBranch(OriginBranch(B_a), Some(f)) : f \in Puppetfiles}
    \cup {RemoteBranch(OriginBranch(B_b), Some(f)) : f \in {PF_2, PF_3}}
    \cup {RemoteBranch(OriginBranch(B_b), None),
          RemoteBranch(fork_a, Some(PF_1))}

\* how many remote branches a repository of the model has at most
MaxBranches == 2

\* the repositories: branches of distinct names, in the order git2 yields
Repos ==
    {r \in UNION {[1..n -> RemoteBranches] : n \in 0..MaxBranches} :
        \A i, j \in 1..Len(r) : i # j => r[i].name # r[j].name}

Cli(view, format, branch) ==
    [view |-> view, format |-> format, branch |-> branch]

ArgsPool ==
    {Cli("ForgeBranches", f, None) : f \in {"TerminalTable", "Jira", "Md"}}
    \cup {Cli("ForgeBranches", "TerminalTable", Some(B_a)),
          Cli("ForgeBranches", "Md", Some(B_zz)),
          Cli("ForgeLatest", "TerminalTable", None),
          Cli("ForgeLatest", "Jira", None),
          Cli("ForgeDeprecated", "TerminalTable", None)}

\* the cache file main finds
MainFiles ==
    {[kind |-> "missing"],
     [kind |-> "map",
      map |-> [n \in {N_a_b} |-> CacheEntry(V_200, TRUE, Now0 - 1)]]}

\* main up to parse_git_repo: the arguments are parsed and the ForgeApi built
Init ==
    /\ args \in ArgsPool
    /\ repo \in Repos
    /\ cache_file \in MainFiles
    /\ cache = load_cache(cache_file)
    /\ now = Now0
    /\ ticks = 0
    /\ last = NoCall
    /\ pc = "parse_git_repo"
    /\ panic = "none"
    /\ branch_no = 0
    /\ branch_modules = <<>>
    /\ forge_names = {}
    /\ names = <<>>
    /\ branch_names = <<>>
    /\ idx = 0
    /\ forge_version = None
    /\ module_rows = <<>>
    /\ table = <<>>
    /\ printed = None
    /\ ParserIdle

selected_branch ==
    IF args.branch.some THEN Some(OriginBranch(args.branch.v)) ELSE None

\* parse_git_repo, one remote branch: skipped unless it is an origin
\* branch with a Puppetfile; the Puppetfile is parsed, its forge names and
\* its modules are collected
ParseBranch ==
    /\ pc = "parse_git_repo"
    /\ branch_no < Len(repo)
    /\ branch_no' = branch_no + 1
    /\ LET b == repo[branch_no + 1]
           parsed == parse_puppetfile(b.puppetfile.v)
       IN  IF ~starts_with(b.name, origin) \/ ~b.puppetfile.some
           THEN UNCHANGED <<pc, panic, forge_names, branch_modules>>
           ELSE IF ~parsed.ok
           THEN /\ pc' = "panicked"
                /\ panic' = "parse_puppetfile"
                /\ UNCHANGED <<forge_names, branch_modules>>
           ELSE /\ forge_names' = forge_names \cup ForgeNamesOf(parsed.v)
                /\ branch_modules' =
                       Append(branch_modules,
                              [name |-> b.name, modules |-> parsed.v])
                /\ UNCHANGED <<pc, panic>>
    /\ UNCHANGED <<parser_vars, api_vars, args, repo, names, branch_names,
                   idx, forge_version, module_rows, table, printed,
                   cache_file>>

\* where main goes after the names are sorted and the branch is checked
Dispatch(ns) ==
    IF args.view = "ForgeBranches"
    THEN IF ns = <<>> THEN "print" ELSE "get_version"
    ELSE IF args.view = "ForgeLatest" /\ args.format = "TerminalTable"
    THEN IF ns = <<>> THEN "print" ELSE "get_version"
    ELSE "store_cache"

\* the names and the branch names are sorted; an unknown selected branch
\* ends the process with status 1
Prepare ==
    /\ pc = "parse_git_repo"
    /\ branch_no = Len(repo)
    /\ names' = SortStrings(forge_names)
    /\ branch_names' =
           SortStrings({branch_modules[i].name : i \in 1..Len(branch_modules)})
    /\ idx' = 1
    /\ pc' = IF selected_branch.some
                /\ selected_branch.v \notin SeqRange(branch_names')
             THEN "exit1"
             ELSE Dispatch(names')
    /\ UNCHANGED <<parser_vars, api_vars, args, repo, panic, branch_no,
                   branch_modules, forge_names, forge_version, module_rows,
                   table, printed, cache_file>>

\* api.get_version(&name).unwrap()
LookupVersion(resp) ==
    /\ pc = "get_version"
    /\ Called("get_version", names[idx], resp,
              get_version(cache, now, names[idx], resp))
    /\ IF last'.ret.ok
       THEN /\ forge_version' = Some(last'.ret.v)
            /\ pc' = "is_deprecated"
            /\ UNCHANGED panic
       ELSE /\ pc' = "panicked"
            /\ panic' = "get_version"
            /\ UNCHANGED forge_version
    /\ UNCHANGED <<parser_vars, now, ticks, args, repo, branch_no,
                   branch_modules, forge_names, names, branch_names, idx,
                   module_rows, table, printed, cache_file>>

\* the end of the loop body: the row of the module is built and pushed
PushRow(name, version, deprecated) ==
    IF args.view = "ForgeBranches"
    THEN /\ module_rows' =
                Append(module_rows,
                       ModuleRow(name, version, deprecated, branch_modules))
         /\ UNCHANGED table
    ELSE /\ table' = Append(table, LatestRow(name, version, deprecated))
         /\ UNCHANGED module_rows

\* api.is_deprecated(&name).unwrap(), then the rest of the loop body
LookupDeprecated(resp) ==
    /\ pc = "is_deprecated"
    /\ Called("is_deprecated", names[idx], resp,
              is_deprecated(cache, now, names[idx], resp))
    /\ IF last'.ret.ok
       THEN /\ PushRow(names[idx], forge_version.v, last'.ret.v)
            /\ idx' = idx + 1
            /\ pc' = IF idx = Len(names) THEN "print" ELSE "get_version"
            /\ UNCHANGED panic
       ELSE /\ pc' = "panicked"
            /\ panic' = "is_deprecated"
            /\ UNCHANGED <<module_rows, table, idx>>
    /\ forge_version' = None
    /\ UNCHANGED <<parser_vars, now, ticks, args, repo, branch_no,
                   branch_modules, forge_names, names, branch_names,
                   printed, cache_file>>

\* the rows are formatted and the table is printed
PrintTable ==
    /\ pc = "print"
    /\ table' = IF args.view = "ForgeBranches"
                THEN [i \in 1..Len(module_rows) |->
                         RenderRow(module_rows[i], args.format, branch_names,
                                   selected_branch)]
                ELSE table
    /\ printed' = Some(table')
    /\ pc' = "store_cache"
    /\ UNCHANGED <<parser_vars, api_vars, args, repo, panic, branch_no,
                   branch_modules, forge_names, names, branch_names, idx,
                   forge_version, module_rows, cache_file>>

\* store_cache that writes only the entries fetched during the run
StoreCache_fetched(written) ==
    /\ pc = "store_cache"
    /\ IF written
       THEN /\ cache_file' =
                   [kind |-> "map",
                    map |-> [n \in {k \in DOMAIN cache :
                                       cache[k].time_fetched >= Now0}
                                |-> cache[n]]]
            /\ pc' = "done"
            /\ UNCHANGED panic
       ELSE /\ pc' = "panicked"
            /\ panic' = "store_cache"
            /\ UNCHANGED cache_file
    /\ UNCHANGED <<parser_vars, api_vars, args, repo, branch_no,
                   branch_modules, forge_names, names, branch_names, idx,
                   forge_version, module_rows, table, printed>>

\* api.store_cache(file): the whole map replaces the file, or the write
\* fails and unwrap() panics
StoreCache(written) ==
    /\ pc = "store_cache"
    /\ IF written
       THEN /\ cache_file' = [kind |-> "map", map |-> cache]
            /\ pc' = "done"
            /\ UNCHANGED panic
       ELSE /\ pc' = "panicked"
            /\ panic' = "store_cache"
            /\ UNCHANGED cache_file
    /\ UNCHANGED <<parser_vars, api_vars, args, repo, branch_no,
                   branch_modules, forge_names, names, branch_names, idx,
                   forge_version, module_rows, table, printed>>

\* the wall clock advances while main looks modules up: the run is
\* held up for an hour
MainTick ==
    /\ pc \in {"get_version", "is_deprecated"}
    /\ Advance({TTL})

Next ==
    \/ ParseBranch
    \/ Prepare
    \/ \E resp \in Responses : LookupVersion(resp)
    \/ \E resp \in Responses : LookupDeprecated(resp)
    \/ PrintTable
    \/ \E written \in BOOLEAN : StoreCache(written)
    \/ MainTick

Spec == Init /\ [][Next]_vars

\* ================================================================= claims
\* ------------------------------------------------------- the cache (C1-C3)
\* the latest lookup found an entry of that age, in seconds
Found(call) == call.op # "none" /\ call.before.some

Age(call) == call.at - call.before.v.time_fetched

\* the entry a lookup at time t writes from the answer it got
Written(call) ==
    Some(FetchedEntry(fetch_data(call.name, call.resp.v).v, call.at))

\* C1: a get_version or is_deprecated call for a name whose entry is less
\* than 3600 seconds old sends no request and leaves the entry's version,
\* deprecation flag and time_fetched as they were.
C1_FreshLookupDoesNotFetch ==
    (Found(last) /\ Age(last) < TTL)
        => (last.requests = 0 /\ last.after = last.before)

\* a lookup 3599 seconds after the fetch was answered from the cache
C1_Witness ==
    /\ Found(last)
    /\ Age(last) = TTL - 1
    /\ last.requests = 0
    /\ last.ret.ok

\* C2: a get_version or is_deprecated call for a name whose entry is 3600
\* seconds old or older (exactly 3600 included) sends exactly one request
\* and, when the fetch succeeds, overwrites version, flag and time_fetched
\* under the same key.
C2_StaleLookupFetchesOnce ==
    (Found(last) /\ Age(last) >= TTL)
        => /\ last.requests = 1
           /\ last.resp.some
           /\ fetch_data(last.name, last.resp.v).ok
                  => last.after = Written(last)

\* C3: from a cache without an entry for x, is_deprecated(x) then
\* get_version(x) within the TTL window send one request in total;
\* is_deprecated returns true exactly when the answer carried a deprecation
\* timestamp, whatever its value, and get_version returns the version of
\* that one answer.
C3_MissThenHit ==
    [][ ( /\ MissedAndFetched(last, last.name)
          /\ last'.op = "get_version"
          /\ last'.name = last.name
          /\ last'.at - last.at < TTL )
            => /\ last.requests + last'.requests = 1
               /\ last.ret.v = last.resp.v.deprecated_at.some
               /\ last'.ret = Ok(Version_parse(last.resp.v.version).v)
      ]_vars

\* get_version(x) 3599 seconds after the is_deprecated(x) that missed and
\* fetched a deprecated release
C3_Witness ==
    /\ last.op = "get_version"
    /\ last.after_miss
    /\ last.before.v.is_deprecated
    /\ Age(last) = TTL - 1
    /\ last.requests = 0
    /\ last.ret.ok

\* ------------------------------------------------- reconciliation (C4-C7)
\* the versions recorded for the row's module across the branches
Recorded(row) ==
    {row.branch_versions[b].v :
        b \in {c \in DOMAIN row.branch_versions : row.branch_versions[c].some}}

\* v is the maximum of S under semver precedence
IsMaximum(v, S) == v \in S /\ \A w \in S : Version_cmp(w, v) <= 0

\* the table of the branches view has been printed
BranchesPrinted == printed.some /\ args.view = "ForgeBranches"

\* C4: in every row built by the reconciliation loop, max_in_use is the
\* maximum under semver precedence of the versions recorded for the module
\* across the branches, pre-release versions included, and 0.0.0 when no
\* branch declares the module.
C4_MaxInUseIsMaximum ==
    \A i \in 1..Len(module_rows) :
        IF Recorded(module_rows[i]) = {}
        THEN module_rows[i].max_in_use_version = Version_new(0, 0, 0)
        ELSE IsMaximum(module_rows[i].max_in_use_version,
                       Recorded(module_rows[i]))

\* the registry-version state a printed cell shows
ForgeState(cell) ==
    IF cell.mark \in {"Red", "(x)", "fire"} THEN "Deprecated"
    ELSE IF cell.mark \in {"DarkYellow", "(!)", "clock"} THEN "AheadOfUse"
    ELSE IF cell.mark \in {"none", ""} THEN "Nominal"
    ELSE "other"

\* C5: the registry-version state of every row is Deprecated whenever the
\* deprecation flag is set, however registry latest compares with
\* max_in_use; AheadOfUse when the flag is not set and registry latest is
\* greater than max_in_use; Nominal otherwise. Exactly one state applies.
C5_RegistryState ==
    BranchesPrinted =>
        \A i \in 1..Len(table) :
            /\ ForgeState(table[i].forge) = "Deprecated"
                   <=> module_rows[i].forge_deprecated
            /\ ForgeState(table[i].forge) = "AheadOfUse"
                   <=> /\ ~module_rows[i].forge_deprecated
                       /\ Version_cmp(module_rows[i].forge_version,
                                      module_rows[i].max_in_use_version) = 1
            /\ ForgeState(table[i].forge) = "Nominal"
                   <=> /\ ~module_rows[i].forge_deprecated
                       /\ Version_cmp(module_rows[i].forge_version,
                                      module_rows[i].max_in_use_version) <= 0

\* a printed row whose module is deprecated and whose registry latest is
\* ahead of max_in_use, and one that is ahead without being deprecated
C5_Witness ==
    /\ BranchesPrinted
    /\ \E i \in 1..Len(table) :
        /\ module_rows[i].forge_deprecated
        /\ Version_gt(module_rows[i].forge_version,
                      module_rows[i].max_in_use_version)
        /\ ForgeState(table[i].forge) = "Deprecated"
    /\ \E i \in 1..Len(table) :
        ForgeState(table[i].forge) = "AheadOfUse"

\* the state a printed branch cell shows
BranchState(cell) ==
    IF cell.mark = "blank" THEN "Absent"
    ELSE IF cell.mark \in {"DarkGreen", ""} THEN "AtMax"
    ELSE IF cell.mark \in {"DarkYellow", "(!)", "clock"} THEN "BehindMax"
    ELSE "AboveMax"

\* C6: for every module declared by a branch, each branch whose recorded
\* version is the highest declared for the module across the branches is
\* classified AtMax, and each branch whose recorded version is lower than
\* that highest version is classified BehindMax.
C6_BranchState ==
    (BranchesPrinted /\ ~args.branch.some) =>
        \A i \in 1..Len(table) : \A k \in 1..Len(branch_names) :
            LET row == module_rows[i]
                b == branch_names[k]
            IN  (b \in DOMAIN row.branch_versions
                 /\ row.branch_versions[b].some) =>
                    BranchState(table[i].cells[k]) =
                        IF IsMaximum(row.branch_versions[b].v, Recorded(row))
                        THEN "AtMax" ELSE "BehindMax"

\* C7: a registry lookup that fails for one module name is surfaced for
\* that module only: the run does not abort, and ends with a row for every
\* other module name.
C7_LookupFailureIsPerModule ==
    /\ (last.op # "none" /\ IsErr(last.ret)) => pc # "panicked"
    /\ pc \in {"done", "panicked"} /\ args.view = "ForgeBranches"
       /\ panic \notin {"parse_puppetfile", "store_cache"}
           => Len(module_rows) >= Len(names) - 1

\* ------------------------------------------------ parse_puppetfile (C8-C10)
\* mod "<name>", "<version>" with any name: FORGE_MODULE_RE without the
\* owner separator
RegistryShape(l) ==
    LET o  == ModOpen(l)
        q  == IndexOf(l, o + 1, Quote)
        i3 == SkipSpaces(l, q + 2)
        r  == LastIndexOf(l, i3, Quote)
    IN  IF /\ o # 0
           /\ q > o + 1
           /\ q + 1 <= Len(l)
           /\ l[q + 1] = ","
           /\ i3 > q + 2
           /\ i3 <= Len(l)
           /\ l[i3] \in Quote
           /\ r # 0
        THEN [matched |-> TRUE, name |-> SubSeq(l, o + 1, q - 1),
              version |-> SubSeq(l, i3 + 1, r - 1)]
        ELSE NoMatch

\* a line of the registry shape whose version text is not semver
BadRegistryLine(l) ==
    /\ RegistryShape(StripComment(l)).matched
    /\ ~Version_parse(RegistryShape(StripComment(l)).version).ok

\* C8: a manifest with a line of the shape mod "<name>", "<version>" whose
\* version text is not valid semver, for any name, makes the parse report
\* a parse-fatal error, and the branch contributes zero declarations.
C8_BadVersionIsParseFatal ==
    (/\ parse_pc \in {"returned", "panicked"}
     /\ \E i \in 1..line_no : BadRegistryLine(IterLines(content)[i]))
        => parse_pc = "panicked" /\ result = None

\* C9: parse_puppetfile returns to its caller for every manifest text: a
\* manifest that cannot be parsed never keeps the remaining branches from
\* being parsed and the run from completing.
C9_ParseIsTotal ==
    /\ panic # "parse_puppetfile"
    /\ pc = "panicked" => branch_no = Len(repo)

\* a registry-module or source-module line
ModuleLine(l) ==
    \/ FORGE_MODULE_RE(StripComment(l)).matched
    \/ GIT_MODULE_RE(StripComment(l)).matched

\* the name such a line declares
DeclaredName(l) ==
    IF FORGE_MODULE_RE(StripComment(l)).matched
    THEN replace(FORGE_MODULE_RE(StripComment(l)).name, "/", "-")
    ELSE GIT_MODULE_RE(StripComment(l)).name

\* C10: after an attribute-line anomaly only further attribute lines are
\* ignored: every registry-module and source-module line later in the file
\* still produces its declaration in the output.
C10_ModulesAfterAnomalyAreKept ==
    (parse_pc = "returned" /\ anomaly_at > 0) =>
        \A i \in (anomaly_at + 1)..Len(IterLines(content)) :
            ModuleLine(IterLines(content)[i]) =>
                \E k \in 1..Len(result.v) :
                    result.v[k].name = DeclaredName(IterLines(content)[i])

\* ------------------------------------------------------ attributes (C11)
\* a line of the shape :<attr> => <value>
AttributeShape(l) ==
    LET line == StripComment(l)
        e == IndexOf(line, 2, {"="})
    IN  /\ Len(line) >= 2
        /\ line[1] = ":"
        /\ e > 2
        /\ e + 1 <= Len(line)
        /\ line[e + 1] = ">"
        /\ trim(SubSeq(line, e + 2, Len(line))) # <<>>

\* the attribute name of such a line
AttrNameOf(l) ==
    LET line == StripComment(l)
    IN  trim(SubSeq(line, 2, IndexOf(line, 2, {"="}) - 1))

\* the six names the match handles
HandledNames ==
    {AttrNames[1], AttrNames[2], AttrNames[3], AttrNames[4], AttrNames[6],
     AttrNames[7]}

\* an attribute line whose name is none of them
UnknownAttributeLine(l) == AttributeShape(l) /\ AttrNameOf(l) \notin HandledNames

\* C11: an attribute line whose name is not one of git, tag, branch,
\* commit, fallback, link halts attribute processing for the rest of the
\* file: no attribute line after it changes the spec of any module.
C11_UnknownAttributeHalts ==
    [][ ( /\ parse_pc = "loop"
          /\ line_no' = line_no + 1
          /\ \E i \in 1..line_no :
                 UnknownAttributeLine(IterLines(content)[i])
          /\ AttributeShape(IterLines(content)[line_no + 1]) )
            => current_module' = current_module
      ]_vars

\* ---------------------------------------------------- failed fetch (C12)
\* the call fetched and the fetch failed
FetchFailed(call) ==
    /\ call.op # "none"
    /\ call.requests = 1
    /\ ~fetch_data(call.name, call.resp.v).ok

\* C12: when the fetch of a lookup fails (transport error, malformed
\* response, version that is not semver), get_version / is_deprecated
\* return an error and the cache map is unchanged: nothing is inserted on
\* a miss and a stale entry keeps its version, flag and time_fetched.
C12_FailedFetchLeavesCache ==
    [][ FetchFailed(last')
            => /\ IsErr(last'.ret)
               /\ cache' = cache
               /\ last'.after = last'.before
      ]_vars

\* a stale entry survived a fetch that answered a version that is not
\* semver
C12_Witness ==
    /\ FetchFailed(last)
    /\ last.resp.v.kind = "json"
    /\ last.before.some
    /\ Age(last) > TTL
    /\ last.after = last.before
    /\ IsErr(last.ret)

\* ------------------------------------------------- the parser's output
\* the declarations emitted so far, and the whole output once returned
Emitted == IF result.some THEN result.v ELSE modules

\* C13: every registry module emitted by parse_puppetfile has a name
\* without '/', each '/' of the quoted name being rewritten to '-', and
\* normalizing a normalized name changes nothing.
C13_RegistryNamesAreCanonical ==
    \A k \in 1..Len(Emitted) :
        Emitted[k].kind = "Forge" =>
            /\ IndexOf(Emitted[k].name, 1, {"/"}) = 0
            /\ replace(Emitted[k].name, "/", "-") = Emitted[k].name

\* the output holds a-b-c, declared as a/b/c, and a-b, declared as a-b
C13_Witness ==
    /\ parse_pc = "returned"
    /\ \E i \in 1..line_no : IterLines(content)[i] = L_forge_abc
    /\ \E k \in 1..Len(result.v) :
           result.v[k] = Forge(<<"a", "-", "b", "-", "c">>,
                               Version_new(1, 0, 0))
    /\ \E i \in 1..line_no : IterLines(content)[i] = L_forge_ab_2
    /\ \E k \in 1..Len(result.v) :
           result.v[k] = Forge(N_a_b, Version_new(2, 0, 0))

\* what a module line declares: the variant and the name
Declaration(l) ==
    [kind |-> IF FORGE_MODULE_RE(StripComment(l)).matched
              THEN "Forge" ELSE "Git",
     name |-> DeclaredName(l)]

\* the declarations of the module lines of ls, in the order of the lines
Declarations(ls) ==
    LET ml == SelectSeq(ls, ModuleLine)
    IN  [k \in 1..Len(ml) |-> Declaration(ml[k])]

\* the variant and the name of each module of a list
Heads(mods) ==
    [k \in 1..Len(mods) |-> [kind |-> mods[k].kind, name |-> mods[k].name]]

\* the declarations emitted and the one being accumulated
Pending ==
    Emitted \o (IF current_module.some THEN <<current_module.v>> ELSE <<>>)

\* C14: the declarations in the output of parse_puppetfile appear in the
\* order of their defining lines (the module-open line of a source module,
\* the line of a registry module); a source module opened before a
\* registry-module line is emitted before that registry module.
C14_OutputInLineOrder ==
    parse_pc \in {"loop", "break", "returned"} =>
        Heads(Pending) = Declarations(SubSeq(IterLines(content), 1, line_no))

\* an output with a source module, then a registry module, then a source
\* module
C14_Witness ==
    /\ parse_pc = "returned"
    /\ Len(result.v) = 3
    /\ result.v[1].kind = "Git"
    /\ result.v[2].kind = "Forge"
    /\ result.v[3].kind = "Git"

\* --------------------------------------------------- attribute lines (C15)
\* the line the loop is about to read
NextLine == StripComment(IterLines(content)[line_no + 1])

\* the loop reads a line of a handled attribute while a source module is
\* being accumulated
ReadsAttribute ==
    /\ parse_pc = "loop"
    /\ line_no' = line_no + 1
    /\ ~FORGE_MODULE_RE(NextLine).matched
    /\ ~GIT_MODULE_RE(NextLine).matched
    /\ GIT_ATTRIBUTE_RE(NextLine).matched
    /\ GIT_ATTRIBUTE_RE(NextLine).name \in HandledNames
    /\ current_module.some

\* the loop reads a source-module line
ReadsGitLine ==
    /\ parse_pc = "loop"
    /\ line_no' = line_no + 1
    /\ ~FORGE_MODULE_RE(NextLine).matched
    /\ GIT_MODULE_RE(NextLine).matched

\* the field of the spec an attribute name stands for
FieldOf(name) ==
    IF name = AttrNames[1] THEN "url"
    ELSE IF name = AttrNames[7] THEN "fallback"
    ELSE IF name = AttrNames[6] THEN "link"
    ELSE "reference"

\* the value the field takes
FieldValue(name, value) ==
    IF name = AttrNames[1] THEN Some(value)
    ELSE IF name = AttrNames[7] THEN Some(value)
    ELSE IF name = AttrNames[6] THEN TRUE
    ELSE IF name = AttrNames[3] THEN GitRef("Tag", value)
    ELSE IF name = AttrNames[4] THEN GitRef("Branch", value)
    ELSE GitRef("Commit", value)

\* C15: a recognized attribute line changes only the corresponding field
\* of the source module being accumulated and leaves its other fields and
\* every emitted declaration unchanged; a module starts with the defaults
\* (url None, reference Head, fallback None, link false), is touched by
\* nothing else and is emitted as it stands, so a field never set has its
\* default in the output.
C15_AttributeFrame ==
    [][ /\ ReadsAttribute =>
            /\ modules' = modules
            /\ current_module'.some
            /\ current_module'.v.kind = "Git"
            /\ current_module'.v.name = current_module.v.name
            /\ \A f \in {"url", "reference", "fallback", "link"} :
                   current_module'.v.spec[f] =
                       IF f = FieldOf(GIT_ATTRIBUTE_RE(NextLine).name)
                       THEN FieldValue(GIT_ATTRIBUTE_RE(NextLine).name,
                                       GIT_ATTRIBUTE_RE(NextLine).value)
                       ELSE current_module.v.spec[f]
        /\ ReadsGitLine =>
            current_module' =
                Some(Git(GIT_MODULE_RE(NextLine).name,
                         GitSpec(None, Head_ref, None, FALSE)))
        /\ (current_module.some /\ current_module' # current_module
            /\ ~ReadsAttribute)
               => /\ Len(modules') > Len(modules)
                  /\ modules'[Len(modules) + 1] = current_module.v
        /\ Len(modules') >= Len(modules)
        /\ SubSeq(modules', 1, Len(modules)) = modules
      ]_vars

\* mod "m/t", then :git => 'u' then :branch => "m": one source module
\* with that url, reference Branch, no fallback, link false
C15_Witness ==
    /\ parse_pc = "returned"
    /\ result.v = <<Git(<<"m", "/", "t">>,
                        GitSpec(Some(<<"u">>), GitRef("Branch", <<"m">>),
                                None, FALSE))>>

\* ------------------------------------------------------ duplicates (C16)
\* the registry declarations of a name in a branch, in manifest order
DeclarationsOf(mods, name) ==
    SelectSeq(mods, LAMBDA m : m.kind = "Forge" /\ m.name = name)

\* the first version each declaring branch gives the name
FirstVersions(name) ==
    {Head(DeclarationsOf(branch_modules[j].modules, name)).version :
        j \in {k \in 1..Len(branch_modules) :
                  DeclarationsOf(branch_modules[k].modules, name) # <<>>}}

\* C16: when a branch declares the same registry module more than once,
\* only the first declaration of the branch is used: the branch's slot
\* holds that first version, and later duplicates of the branch influence
\* neither the slot nor max_in_use.
C16_FirstDeclarationWins ==
    \A i \in 1..Len(module_rows) :
        LET row == module_rows[i]
        IN  /\ \A j \in 1..Len(branch_modules) :
                   LET ds == DeclarationsOf(branch_modules[j].modules,
                                            row.name)
                   IN  ds # <<>> =>
                         /\ branch_modules[j].name
                                \in DOMAIN row.branch_versions
                         /\ row.branch_versions[branch_modules[j].name]
                                = Some(Head(ds).version)
            /\ row.max_in_use_version
                   \in FirstVersions(row.name) \cup {Version_new(0, 0, 0)}
            /\ \A v \in FirstVersions(row.name) :
                   Version_cmp(v, row.max_in_use_version) <= 0

\* a row whose only declaring branch gives 1.0.0 first and 2.0.0 later
C16_Witness ==
    \E i \in 1..Len(module_rows) :
        /\ Len(branch_modules) = 1
        /\ Len(DeclarationsOf(branch_modules[1].modules,
                              module_rows[i].name)) = 2
        /\ DeclarationsOf(branch_modules[1].modules,
                          module_rows[i].name)[2].version
               = Version_new(2, 0, 0)
        /\ module_rows[i].branch_versions[branch_modules[1].name]
               = Some(Version_new(1, 0, 0))
        /\ module_rows[i].max_in_use_version = Version_new(1, 0, 0)

\* -------------------------------------------------- the snapshot (C17)
\* the view prints a table
Prints ==
    \/ args.view = "ForgeBranches"
    \/ args.view = "ForgeLatest" /\ args.format = "TerminalTable"

\* every name has been looked up and the output has been printed
LookupsAndOutputDone ==
    Prints => /\ printed.some
              /\ idx = Len(names) + 1
              /\ Len(printed.v) = Len(names)

\* C17: the snapshot is written at most once in a run, as the whole entry
\* map, and only after all the lookups and all the output; a run that
\* aborts earlier (unknown selected branch, failed lookup) writes none.
C17_SnapshotWrittenOnceAtEnd ==
    [][ /\ pc' # "done" => cache_file' = cache_file
        /\ pc = "done" => cache_file' = cache_file
        /\ (pc # "done" /\ pc' = "done") =>
               /\ pc = "store_cache"
               /\ LookupsAndOutputDone
               /\ cache' = cache
               /\ cache_file' = [kind |-> "map", map |-> cache]
      ]_vars

\* a run over two module names that ended by writing both entries
C17_Witness ==
    /\ pc = "done"
    /\ args.view = "ForgeBranches"
    /\ Len(names) = 2
    /\ Len(printed.v) = 2
    /\ cache_file = [kind |-> "map", map |-> cache]
    /\ DOMAIN cache = {N_a_b, N_c_d}

\* ------------------------------------------------ loading the cache (C18)
\* C18: loading the cache never fails the run: with a snapshot file that
\* is missing, unreadable or unparsable the cache starts as the empty map,
\* so every entry it holds later was fetched during the run and a lookup
\* that finds no entry for its name fetches.
C18_BadSnapshotIsEmptyCache ==
    cache_file.kind # "map" =>
        /\ last.op = "none" => DOMAIN cache = {}
        /\ \A n \in DOMAIN cache : cache[n].time_fetched >= Now0
        /\ (last.op # "none" /\ ~last.before.some) => last.requests = 1
        /\ (last.op # "none" /\ last.before.some) =>
               last.before.v.time_fetched >= Now0

\* the first lookup after an unparsable snapshot missed, fetched and
\* answered
C18_Witness ==
    /\ cache_file.kind = "garbage"
    /\ last.op = "get_version"
    /\ ~last.before.some
    /\ last.requests = 1
    /\ last.ret.ok
    /\ DOMAIN cache = {last.name}

\* ------------------------------------------------------ cache keys (C19)
\* C19: after any sequence of lookups, lookups by owner/name included,
\* every key of the entry map is a canonical owner-name name, so that
\* owner/name and owner-name share one entry and one fetch.
C19_KeysAreCanonical ==
    \A k \in DOMAIN cache : IndexOf(k, 1, {"/"}) = 0

\* ------------------------------------------------------------ rows (C20)
\* C20: every row holds a declared version for at least one branch: the
\* names come from the declarations the rows are built from, so no row is
\* made for a module that no branch declares.
C20_RowsAreDeclared ==
    \A i \in 1..Len(module_rows) :
        /\ Recorded(module_rows[i]) # {}
        /\ \E j \in 1..Len(branch_modules) :
               DeclarationsOf(branch_modules[j].modules,
                              module_rows[i].name) # <<>>

\* two branches were scanned and a row has the version of one of them only
C20_Witness ==
    /\ Len(branch_modules) = 2
    /\ \E i \in 1..Len(module_rows) :
           /\ Cardinality(Recorded(module_rows[i])) = 1
           /\ Cardinality(DOMAIN module_rows[i].branch_versions) = 1

\* ------------------------------------------------------ row order (C21)
\* the registry names the scanned branches declare
DeclaredInBranches ==
    UNION {ForgeNamesOf(branch_modules[j].modules) :
              j \in 1..Len(branch_modules)}

\* the names of the rows built so far, in the order they were pushed
RowNames ==
    IF args.view = "ForgeBranches"
    THEN [i \in 1..Len(module_rows) |-> module_rows[i].name]
    ELSE [i \in 1..Len(table) |-> table[i].name]

\* C21: the rows are emitted one per distinct registry module name, in
\* strictly ascending lexicographic order of name, whatever the order in
\* which the branches were enumerated and the set yielded the names.
C21_RowsAscendByName ==
    /\ \A i, j \in 1..Len(RowNames) :
           i < j => CmpStr(RowNames[i], RowNames[j]) < 0
    /\ SeqRange(RowNames) \subseteq DeclaredInBranches
    /\ printed.some =>
           /\ SeqRange(RowNames) = DeclaredInBranches
           /\ [i \in 1..Len(printed.v) |-> printed.v[i].name] = RowNames

\* a-b is printed before c-d although the first declaration scanned was
\* that of c-d
C21_Witness ==
    /\ printed.some
    /\ args.view = "ForgeBranches"
    /\ RowNames = <<N_a_b, N_c_d>>
    /\ Len(branch_modules) = 2
    /\ branch_modules[1].modules[1].name = N_c_d

\* ------------------------------------------------- source modules (C22)
\* the line is a source-module line
SourceLine(l) ==
    /\ ~FORGE_MODULE_RE(StripComment(l)).matched
    /\ GIT_MODULE_RE(StripComment(l)).matched

\* the source-module lines read so far that open a module named n
SourceLinesNamed(n) ==
    {i \in 1..line_no :
        /\ SourceLine(IterLines(content)[i])
        /\ GIT_MODULE_RE(StripComment(IterLines(content)[i])).name = n}

\* the source modules named n of a list
SourceModulesNamed(mods, n) ==
    {k \in 1..Len(mods) : mods[k].kind = "Git" /\ mods[k].name = n}

\* C22: every source-module line the scanner processes yields exactly one
\* SourceModule in the output, whichever event finalizes it: a registry
\* line, a source-module line, a break that stops the scan, or the end of
\* the input. Until then it is the one module being accumulated.
C22_OneModulePerSourceLine ==
    /\ parse_pc \in {"loop", "break"} =>
           \A i \in 1..line_no :
               SourceLine(IterLines(content)[i]) =>
                   Cardinality(SourceModulesNamed(Pending,
                                                  Declaration(IterLines(content)[i]).name))
                       = Cardinality(SourceLinesNamed(
                                         Declaration(IterLines(content)[i]).name))
    /\ parse_pc = "returned" =>
           /\ ~current_module.some
           /\ \A i \in 1..line_no :
                  SourceLine(IterLines(content)[i]) =>
                      Cardinality(SourceModulesNamed(result.v,
                                                     Declaration(IterLines(content)[i]).name))
                          = Cardinality(SourceLinesNamed(
                                            Declaration(IterLines(content)[i]).name))

\* mod 'g', then :ref => 'r' stops the scan before a third line; the
\* output is the one source module g
C22_Witness ==
    /\ parse_pc = "returned"
    /\ Len(IterLines(content)) = 3
    /\ line_no = 2
    /\ IterLines(content)[1] = L_git_g
    /\ IterLines(content)[2] = L_attr_ref
    /\ Len(result.v) = 1
    /\ result.v[1].kind = "Git"
    /\ result.v[1].name = <<"g">>

\* ------------------------------------------------------- AboveMax (C23)
\* C23: in every row every branch's recorded version v satisfies
\* v <= max_in_use, so no cell is ever classified AboveMax.
C23_NoCellAboveMax ==
    /\ \A i \in 1..Len(module_rows) :
           \A b \in DOMAIN module_rows[i].branch_versions :
               module_rows[i].branch_versions[b].some =>
                   ~Version_gt(module_rows[i].branch_versions[b].v,
                               module_rows[i].max_in_use_version)
    /\ BranchesPrinted =>
           \A i \in 1..Len(table) : \A k \in 1..Len(table[i].cells) :
               BranchState(table[i].cells[k]) # "AboveMax"

\* a printed row with two branches at different versions: one cell at the
\* maximum, one behind it
C23_Witness ==
    /\ BranchesPrinted
    /\ \E i \in 1..Len(table) :
           /\ Cardinality(Recorded(module_rows[i])) = 2
           /\ \E k \in 1..Len(table[i].cells) :
                  BranchState(table[i].cells[k]) = "AtMax"
           /\ \E k \in 1..Len(table[i].cells) :
                  BranchState(table[i].cells[k]) = "BehindMax"

\* ----------------------------------------------- cached versions (C24)
\* C24: in every reachable cache state, entries loaded from a snapshot
\* included, each entry's version text parses as a semantic version, so
\* get_version on a fresh entry returns Ok(version) and never aborts.
C24_CachedVersionsParse ==
    (last.op = "get_version" /\ Found(last) /\ Age(last) < TTL) =>
        /\ \A k \in DOMAIN cache : Version_parse(cache[k].version).ok
        /\ last.ret.ok

\* ------------------------------------------------- other entries (C25)
\* C25: a lookup for a name never changes the entry of another name and
\* no lookup removes a key: the key set of the cache only grows.
C25_LookupFrame ==
    [][ cache' # cache =>
            /\ DOMAIN cache \subseteq DOMAIN cache'
            /\ DOMAIN cache' \subseteq DOMAIN cache \cup {last'.name}
            /\ \A k \in DOMAIN cache :
                   k # last'.name => cache'[k] = cache[k]
      ]_vars

\* a stale entry was refreshed next to an entry of another name, which
\* kept its older time_fetched
C25_Witness ==
    /\ Found(last)
    /\ last.requests = 1
    /\ last.ret.ok
    /\ Cardinality(DOMAIN cache) = 2
    /\ \E k \in DOMAIN cache :
           k # last.name /\ cache[k].time_fetched < last.at

====
